---- MODULE Spec2Model ----
(***************************************************************************)
(* Model of the VerifiableShuffle smart contract                           *)
(* (projects/verifiable-shuffle/smart_contracts/verifiable_shuffle).       *)
(*                                                                         *)
(* The AVM computes on uint64 words and 128-bit wide products.  TLC's      *)
(* integers are narrower than that, so every AVM word that can exceed the  *)
(* TLC range is carried as a little-endian sequence of limbs in base       *)
(* LimbBase with no most-significant zero limb (zero is the empty          *)
(* sequence).                                                              *)
(***************************************************************************)
EXTENDS Integers, Sequences, FiniteSets, TLC

(***************************************************************************)
(* Wide naturals                                                           *)
(***************************************************************************)
LimbBits == 15
LimbBase == 2^LimbBits

RECURSIVE Pow2(_)
Pow2(e) == IF e = 0 THEN 1 ELSE 2 * Pow2(e - 1)

RECURSIVE BigNorm(_)
BigNorm(a) ==
    IF a = <<>> THEN <<>>
    ELSE IF a[Len(a)] = 0 THEN BigNorm(SubSeq(a, 1, Len(a) - 1))
    ELSE a

RECURSIVE FromNat(_)
FromNat(x) == IF x = 0 THEN <<>> ELSE <<x % LimbBase>> \o FromNat(x \div LimbBase)

\* value of a wide natural known to fit the checker's integers
RECURSIVE ToNat(_)
ToNat(a) == IF a = <<>> THEN 0 ELSE a[1] + LimbBase * ToNat(Tail(a))

RECURSIVE BigAddC(_, _, _)
BigAddC(a, b, carry) ==
    IF a = <<>> /\ b = <<>> THEN (IF carry = 0 THEN <<>> ELSE <<carry>>)
    ELSE LET x == IF a = <<>> THEN 0 ELSE a[1]
             y == IF b = <<>> THEN 0 ELSE b[1]
             s == x + y + carry
         IN  <<s % LimbBase>> \o
             BigAddC(IF a = <<>> THEN <<>> ELSE Tail(a),
                     IF b = <<>> THEN <<>> ELSE Tail(b),
                     s \div LimbBase)

BigAdd(a, b) == BigAddC(a, b, 0)

\* a - b for a >= b
RECURSIVE BigSubB(_, _, _)
BigSubB(a, b, borrow) ==
    IF a = <<>> THEN <<>>
    ELSE LET y == IF b = <<>> THEN 0 ELSE b[1]
             d == a[1] - y - borrow
         IN  <<IF d < 0 THEN d + LimbBase ELSE d>> \o
             BigSubB(Tail(a), IF b = <<>> THEN <<>> ELSE Tail(b),
                     IF d < 0 THEN 1 ELSE 0)

BigSub(a, b) == BigNorm(BigSubB(a, b, 0))

RECURSIVE BigMulLimbC(_, _, _)
BigMulLimbC(a, d, carry) ==
    IF a = <<>> THEN (IF carry = 0 THEN <<>> ELSE <<carry>>)
    ELSE LET p == a[1] * d + carry
         IN  <<p % LimbBase>> \o BigMulLimbC(Tail(a), d, p \div LimbBase)

RECURSIVE BigMul(_, _)
BigMul(a, b) ==
    IF a = <<>> \/ b = <<>> THEN <<>>
    ELSE LET rest == BigMul(a, Tail(b))
         IN  BigNorm(BigAdd(BigMulLimbC(a, b[1], 0),
                            IF rest = <<>> THEN <<>> ELSE <<0>> \o rest))

\* -1, 0, 1 as a < b, a = b, a > b
RECURSIVE BigCmpFrom(_, _, _)
BigCmpFrom(a, b, i) ==
    IF i = 0 THEN 0
    ELSE IF a[i] < b[i] THEN -1
    ELSE IF a[i] > b[i] THEN 1
    ELSE BigCmpFrom(a, b, i - 1)

BigCmp(a, b) ==
    IF Len(a) < Len(b) THEN -1
    ELSE IF Len(a) > Len(b) THEN 1
    ELSE BigCmpFrom(a, b, Len(a))

BigGeq(a, b) == BigCmp(a, b) >= 0
BigLeq(a, b) == BigCmp(a, b) <= 0

\* 2^e as a wide natural
BigPow2(e) ==
    [i \in 1..(e \div LimbBits + 1) |->
        IF i = e \div LimbBits + 1 THEN Pow2(e % LimbBits) ELSE 0]

\* floor(a / 2^c)
BigShr(a, c) ==
    LET q == c \div LimbBits
        r == c % LimbBits
        lo == Pow2(r)
        hi == Pow2(LimbBits - r)
        len == Len(a) - q
    IN  IF len <= 0 THEN <<>>
        ELSE BigNorm([i \in 1..len |->
                 a[i + q] \div lo
                 + (IF i + q + 1 <= Len(a) THEN (a[i + q + 1] % lo) * hi ELSE 0)])

\* a mod 2^c
BigLowBits(a, c) ==
    LET q == c \div LimbBits
        r == c % LimbBits
    IN  IF Len(a) <= q THEN a
        ELSE BigNorm([i \in 1..(q + 1) |->
                 IF i <= q THEN a[i] ELSE a[i] % Pow2(r)])

RECURSIVE SmallBitLen(_)
SmallBitLen(x) == IF x = 0 THEN 0 ELSE 1 + SmallBitLen(x \div 2)

\* op.bitlen: index of the highest set bit plus one, 0 for 0
bitlen(a) ==
    IF a = <<>> THEN 0
    ELSE (Len(a) - 1) * LimbBits + SmallBitLen(a[Len(a)])

\* the product kept in one uint64: the high word is lost
mulwTruncating(a, b) ==
    <<<<>>, BigLowBits(BigMul(a, b), 64)>>

\* op.mulw: the full 128-bit product of two uint64, as <<high, low>>
mulw(a, b) ==
    LET p == BigMul(a, b)
    IN  <<BigShr(p, 64), BigLowBits(p, 64)>>

\* the 128-bit value held by a <<high, low>> pair
Wide(high, low) == BigAdd(BigMul(high, BigPow2(64)), low)

\* op.divw by a power of two d = 2^e: the quotient of the 128-bit value
\* high:low, or Abort when it does not fit a uint64 (the AVM panics)
Abort == -1

divw(high, low, d) ==
    LET q == BigShr(Wide(high, low), bitlen(d) - 1)
    IN  IF bitlen(q) > 64 THEN <<>> ELSE q

divwPanics(high, low, d) ==
    d = <<>> \/ bitlen(BigShr(Wide(high, low), bitlen(d) - 1)) > 64

RECURSIVE BitOr(_, _)
BitOr(x, y) ==
    IF x = 0 THEN y
    ELSE IF y = 0 THEN x
    ELSE (IF x % 2 = 1 \/ y % 2 = 1 THEN 1 ELSE 0) + 2 * BitOr(x \div 2, y \div 2)

\* the operator | of two uint64
BigOr(a, b) ==
    [i \in 1..(IF Len(a) > Len(b) THEN Len(a) ELSE Len(b)) |->
        BitOr(IF i <= Len(a) THEN a[i] ELSE 0, IF i <= Len(b) THEN b[i] ELSE 0)]

\* the operator << of a uint64 by b < 64 bits: the bits shifted past the
\* 64th are lost
shl(a, b) == BigLowBits(BigMul(a, BigPow2(b)), 64)

(***************************************************************************)
(* binary_logarithm and k_permutation_logarithm                            *)
(***************************************************************************)
LOG_PRECISION == 16

\* an iteration that sets the bit of the fraction whatever the square is
BinLogIterBitAlwaysSet(st, integer_component) ==
    LET shifted == st.fractional_component * 2
        square == mulw(st.n, st.n)
        scale == BigPow2(integer_component)
        panics == divwPanics(square[1], square[2], scale)
        q == divw(square[1], square[2], scale)
    IN  IF ~st.ok \/ panics
        THEN [n |-> st.n, fractional_component |-> shifted, ok |-> FALSE]
        ELSE IF BigGeq(q, BigPow2(integer_component + 1))
        THEN [n |-> BigShr(q, 1),
              fractional_component |-> BitOr(shifted, 1), ok |-> TRUE]
        ELSE [n |-> q, fractional_component |-> BitOr(shifted, 1), ok |-> TRUE]

\* the body of the loop "for _i in urange(m)": one more bit of the fraction.
\* st = [n, fractional_component, ok]
BinLogIter(st, integer_component) ==
    LET shifted == st.fractional_component * 2
        square == mulw(st.n, st.n)
        scale == BigPow2(integer_component)
        panics == divwPanics(square[1], square[2], scale)
        q == divw(square[1], square[2], scale)
    IN  IF ~st.ok \/ panics
        THEN [n |-> st.n, fractional_component |-> shifted, ok |-> FALSE]
        ELSE IF BigGeq(q, BigPow2(integer_component + 1))
        THEN [n |-> BigShr(q, 1),
              fractional_component |-> BitOr(shifted, 1), ok |-> TRUE]
        ELSE [n |-> q, fractional_component |-> shifted, ok |-> TRUE]

\* the loop stops early once the wide division has panicked
RECURSIVE BinLogLoop(_, _, _)
BinLogLoop(st, integer_component, iters) ==
    IF iters = 0 \/ ~st.ok THEN st
    ELSE BinLogLoop(BinLogIter(st, integer_component), integer_component, iters - 1)

\* the early return made without the shift by m
binary_logarithm_unshifted(n, m) ==
    LET integer_component == bitlen(n) - 1
    IN  IF n = BigPow2(integer_component)
        THEN integer_component
        ELSE LET fin == BinLogLoop([n |-> n, fractional_component |-> 0, ok |-> TRUE],
                                   integer_component, m)
             IN  IF fin.ok
                 THEN BitOr(integer_component * Pow2(m), fin.fractional_component)
                 ELSE Abort

\* n is a wide natural >= 1, m the number of fractional bits; the result is
\* the fixed-point logarithm, or Abort when the wide division panics
binary_logarithm(n, m) ==
    LET integer_component == bitlen(n) - 1
    IN  IF n = BigPow2(integer_component)
        THEN integer_component * Pow2(m)
        ELSE LET fin == BinLogLoop([n |-> n, fractional_component |-> 0, ok |-> TRUE],
                                   integer_component, m)
             IN  IF fin.ok
                 THEN BitOr(integer_component * Pow2(m), fin.fractional_component)
                 ELSE Abort

\* the loop "for i in urange(n - k + 1, n + 1)" from its t-th term on
\* (t from 0), i = first + t.  acc = [largest_log_arg, summation, ok]
RECURSIVE KPermLoop(_, _, _, _, _)
KPermLoop(acc, first, t, k, m) ==
    IF t = k \/ ~acc.ok THEN acc
    ELSE LET i == BigAdd(first, FromNat(t))
             w == mulw(acc.largest_log_arg, i)
             overflow == w[1] # <<>>
             low == w[2]
             lg == binary_logarithm(acc.largest_log_arg, m)
             next ==
                 IF overflow \/ bitlen(low) = 64
                 THEN [largest_log_arg |-> i,
                       summation |-> acc.summation + lg,
                       ok |-> lg # Abort]
                 ELSE [largest_log_arg |-> BigMul(acc.largest_log_arg, i),
                       summation |-> acc.summation,
                       ok |-> TRUE]
         IN  KPermLoop(next, first, t + 1, k, m)

\* the logarithm of the last product alone, the summation forgotten
KPermLastOnly(acc, lg) ==
    IF acc.ok /\ lg # Abort THEN lg ELSE Abort

\* n is a wide natural, 1 <= k <= n
\* after the loop: summation += binary_logarithm(largest_log_arg, m)
KPermLast(acc, lg) ==
    IF acc.ok /\ lg # Abort THEN acc.summation + lg ELSE Abort

KPermSum(acc, m) ==
    KPermLast(acc, IF acc.ok THEN binary_logarithm(acc.largest_log_arg, m) ELSE Abort)

k_permutation_logarithm(n, k, m) ==
    KPermSum(KPermLoop([largest_log_arg |-> <<1>>, summation |-> 0, ok |-> TRUE],
                       BigAdd(BigSub(n, FromNat(k)), <<1>>), 0, k, m), m)

\* an iteration that calls binary_logarithm only when op.mulw overflows
KPermIterOverflowOnly(acc, i, m) ==
    LET w == mulw(acc.largest_log_arg, i)
        overflow == w[1] # <<>>
    IN  IF overflow
        THEN LET lg == binary_logarithm(acc.largest_log_arg, m)
             IN  [largest_log_arg |-> i,
                  summation |-> IF lg = Abort THEN acc.summation
                                ELSE acc.summation + lg,
                  ok |-> lg # Abort,
                  passed |-> <<acc.largest_log_arg>>]
        ELSE [largest_log_arg |-> BigMul(acc.largest_log_arg, i),
              summation |-> acc.summation, ok |-> TRUE, passed |-> <<>>]

\* lines 202-207: the iteration of the loop for the term i.  passed is the
\* argument the iteration gave to binary_logarithm, if it called it
KPermIter(acc, i, m) ==
    LET w == mulw(acc.largest_log_arg, i)
        overflow == w[1] # <<>>
        low == w[2]
    IN  IF overflow \/ bitlen(low) = 64
        THEN LET lg == binary_logarithm(acc.largest_log_arg, m)
             IN  [largest_log_arg |-> i,
                  summation |-> IF lg = Abort THEN acc.summation
                                ELSE acc.summation + lg,
                  ok |-> lg # Abort,
                  passed |-> <<acc.largest_log_arg>>]
        ELSE [largest_log_arg |-> BigMul(acc.largest_log_arg, i),
              summation |-> acc.summation, ok |-> TRUE, passed |-> <<>>]

\* n * (n-1) * ... * (n-k+1), the number of ordered k-permutations of n
RECURSIVE FallingFactorial(_, _)
FallingFactorial(n, k) ==
    IF k = 0 THEN <<1>>
    ELSE BigMul(n, FallingFactorial(BigSub(n, <<1>>), k - 1))

(***************************************************************************)
(* Configuration (config.py, template variables) and model bounds          *)
(***************************************************************************)
BINS == 11
SAFETY_GAP == 1
\* the cap one lower
MAX_WINNERS_34 == 35 - 1

\* assert 1 <= winners.native < 35
MAX_WINNERS == 35
SAFE_SIZE_BITS == 128

NumAccounts == 2
MaxRound == 2
MaxTx == 2
MaxDelay == 1
SeedLen == 3
MaxRaw == 3
MaxN == 4
MaxParticipants == 2
MaxArg == 12
MaxPrecision == 3
MaxBins == 3

Accounts == 1..NumAccounts

\* errors.py, plus the AVM's own failures
SAFE_GAP == "The round delay is less than the safety parameters"
WINNERS_BOUND == "There must be at least one winner and less than 35"
PARTICIPANTS_BOUND == "There must be at least two participants"
INPUT_SOUNDNESS == "Winners must be less than or equal to Participants"
SAFE_SIZE == "The number of k-permutation exceeds the safety parameters"
ROUND_ELAPSED == "The committed round has not elapsed yet"
NO_LOCAL_STATE == "avm: local state missing"
BEACON_FAILED == "avm: inner call to the randomness beacon failed"
PRNG_RANGE == "lib_pcg: range too small"
NoError == "none"

(***************************************************************************)
(* The generator and the sparse map kept in scratch space                  *)
(***************************************************************************)
\* A beacon output is modelled by the raw words the generator derives from
\* it: word number c decides the draw of counter value c.  The words are
\* small ones, and two that reach the indices sharing a slot with 0 and 1.
RawWords == (0..MaxRaw) \cup {BINS - 2, BINS - 1}

Seeds == [0..(SeedLen - 1) -> RawWords]

\* pcg128_random(state, lower, upper, 1): one draw in [lower, upper); the
\* library refuses a range of fewer than two values
pcg128_panics(lower, upper) == upper < lower + 2

pcg128_random(seed, counter, lower, upper) ==
    lower + (seed[counter % SeedLen] % (upper - lower))

\* op.extract_uint32(sequence[0].bytes, 12): the low 32 bits of the draw
extract_low32(draw) == ToNat(BigLowBits(FromNat(draw), 32))

\* A bucket is the byte string of a scratch slot, read as 32-bit words:
\* <<key, value, key, value, ...>>; the byte offset o is word o \div 4 + 1.
WordAt(bin_list, offset) == bin_list[offset \div 4 + 1]

RECURSIVE linear_search_from(_, _, _)
linear_search_from(bin_list, key, i) ==
    IF i >= 4 * Len(bin_list) THEN <<FALSE, 0, 0>>
    ELSE IF WordAt(bin_list, i) = key THEN <<TRUE, i, WordAt(bin_list, i + 4)>>
    ELSE linear_search_from(bin_list, key, i + 8)

linear_search(bin_list, key) == linear_search_from(bin_list, key, 0)

\* op.replace(bytes, offset, 4-byte word)
replace_word(bin_list, offset, word) ==
    [bin_list EXCEPT ![offset \div 4 + 1] = word]

EmptyScratch == [b \in 0..(BINS - 1) |-> <<>>]

\* what an execution may find in the slots before it stores to them
StaleScratches ==
    {EmptyScratch, [EmptyScratch EXCEPT ![1] = <<1, 0>>, ![2] = <<2, 1>>]}

ResetScratchSkipped(slots) == slots

\* for i in urange(cfg.BINS): op.Scratch.store(i, Bytes())
ResetScratch(slots) == [b \in DOMAIN slots |-> <<>>]

NShufflesAlwaysWinners(committed_participants, committed_winners) ==
    committed_winners

\* n_shuffles
NShuffles(committed_participants, committed_winners) ==
    IF committed_winners < committed_participants
    THEN committed_winners
    ELSE committed_winners - 1

\* the swap written without looking a[i] up in the map
ShuffleStepStaleI(st, i, j) ==
    LET j_bin == st.scratch[j % BINS]
        j_search == linear_search(j_bin, j)
        j_value == IF j_search[1] THEN j_search[3] ELSE j
        new_bin == IF j_search[1]
                   THEN replace_word(j_bin, j_search[2] + 4, i)
                   ELSE j_bin \o <<j, i>>
    IN  [scratch |-> [st.scratch EXCEPT ![j % BINS] = new_bin],
         winners |-> Append(st.winners, j_value)]

\* the winner taken without the swap being written to the map
ShuffleStepNoSwap(st, i, j) ==
    LET j_search == linear_search(st.scratch[j % BINS], j)
    IN  [scratch |-> st.scratch,
         winners |-> Append(st.winners, IF j_search[1] THEN j_search[3] ELSE j)]

\* One iteration of the shuffle loop for index i and draw j.
\* st = [scratch, winners]
ShuffleStep(st, i, j) ==
    LET i_search == linear_search(st.scratch[i % BINS], i)
        i_value == IF i_search[1] THEN i_search[3] ELSE i
        j_bin == st.scratch[j % BINS]
        j_search == linear_search(j_bin, j)
        j_value == IF j_search[1] THEN j_search[3] ELSE j
        new_bin == IF j_search[1]
                   THEN replace_word(j_bin, j_search[2] + 4, i_value)
                   ELSE j_bin \o <<j, i_value>>
    IN  [scratch |-> [st.scratch EXCEPT ![j % BINS] = new_bin],
         winners |-> Append(st.winners, j_value)]

\* the last slot appended as if it had never been written
ShuffleLastDefault(st, committed_participants, committed_winners) ==
    IF committed_participants = committed_winners
    THEN [st EXCEPT !.winners = Append(@, committed_winners - 1)]
    ELSE st

\* if committed_participants == committed_winners: append the last slot
ShuffleLast(st, committed_participants, committed_winners) ==
    IF committed_participants = committed_winners
    THEN LET key == committed_winners - 1
             search == linear_search(st.scratch[key % BINS], key)
         IN  [st EXCEPT !.winners = Append(@, IF search[1] THEN search[3] ELSE key)]
    ELSE st

\* The loop "for i in urange(n_shuffles)" from iteration i on.
\* run = [scratch, winners, draws, ok]; draws logs <<counter, lower, upper, j>>
RECURSIVE ShuffleLoop(_, _, _, _, _)
ShuffleLoop(run, seed, i, n_shuffles, committed_participants) ==
    IF i >= n_shuffles \/ ~run.ok THEN run
    ELSE IF pcg128_panics(i, committed_participants)
    THEN [run EXCEPT !.ok = FALSE,
                     !.draws = Append(@, <<i, i, committed_participants, 0>>)]
    ELSE LET j == extract_low32(pcg128_random(seed, i, i, committed_participants))
             stepped == ShuffleStep([scratch |-> run.scratch, winners |-> run.winners], i, j)
         IN  ShuffleLoop([scratch |-> stepped.scratch,
                          winners |-> stepped.winners,
                          draws |-> Append(run.draws, <<i, i, committed_participants, j>>),
                          ok |-> TRUE],
                         seed, i + 1, n_shuffles, committed_participants)

\* reveal from the reset of the scratch slots to the winners array, started
\* on whatever the slots hold
Shuffle(slots, seed, committed_participants, committed_winners) ==
    LET looped == ShuffleLoop([scratch |-> ResetScratch(slots), winners |-> <<>>,
                               draws |-> <<>>, ok |-> TRUE],
                              seed, 0,
                              NShuffles(committed_participants, committed_winners),
                              committed_participants)
        final == ShuffleLast([scratch |-> looped.scratch, winners |-> looped.winners],
                             committed_participants, committed_winners)
    IN  IF looped.ok
        THEN [looped EXCEPT !.scratch = final.scratch, !.winners = final.winners]
        ELSE looped

(***************************************************************************)
(* The contract: state, commit, reveal                                     *)
(***************************************************************************)
VARIABLES
    round,        \* Global.round
    commitment,   \* LocalState(Commitment): account -> record, where set
    txCount,      \* transactions confirmed so far; ids are 1..txCount
    last,         \* the last call: its inputs, what it read, its outcome
    revealed,     \* history: the request ids successful reveals have returned
    sh,           \* the shuffle of one reveal, run step by step (SpecShuffle)
    fn,           \* a function of the contract under evaluation: its
                  \* arguments and what it has computed so far
    latest,       \* history: account -> the id of the transaction of its
                  \* most recent successful commit, 0 before the first
    committedIn   \* history: account -> <<the round in which its most
                  \* recent successful commit was executed>>, <<>> before

vars == <<round, commitment, txCount, last, revealed, sh, fn, latest, committedIn>>

NoRet == [commitment_tx_id |-> 0, winners |-> <<>>]

NoCall ==
    [op |-> "none", sender |-> 0, args |-> <<>>, round |-> 0,
     ok |-> TRUE, err |-> NoError, commitment |-> <<>>, ret |-> NoRet,
     seed |-> <<>>, beacon |-> <<>>, draws |-> <<>>]

ShIdle ==
    [pc |-> "idle", n |-> 0, k |-> 0, seed |-> <<>>, i |-> 0,
     scratch |-> EmptyScratch, winners |-> <<>>, draws |-> <<>>,
     run |-> 0, first |-> <<>>]

FnIdle == [pc |-> "idle"]

NoCommits == [a \in Accounts |-> 0]

NoRounds == [a \in Accounts |-> <<>>]

\* (participants, winners) of the records commit is asked to store: one
\* winner and all winners out of MaxParticipants, and a pair whose
\* 7-permutations number just over 2^128
ValidPairs ==
    {<<MaxParticipants, 1>>, <<MaxParticipants, MaxParticipants>>, <<319561, 7>>}

\* (delay, participants, winners) with one assert of commit to reject each
RejectedArgs ==
    {<<SAFETY_GAP - 1, 2, 1>>, <<SAFETY_GAP, 2, 0>>, <<SAFETY_GAP, 40, 35>>,
     <<SAFETY_GAP, 1, 1>>, <<SAFETY_GAP, 2, 3>>, <<SAFETY_GAP, 80, 21>>}

\* the arguments offered to commit
CommitArgs ==
    {<<d, p[1], p[2]>> : d \in SAFETY_GAP..MaxDelay, p \in ValidPairs}
        \cup RejectedArgs

\* beacon outputs offered to reveal
BeaconOutputs == {[c \in 0..(SeedLen - 1) |-> r] : r \in 0..1}

Init ==
    /\ round = 0
    /\ commitment = [a \in {} |-> NoRet]
    /\ txCount = 0
    /\ last = NoCall
    /\ revealed = {}
    /\ sh = ShIdle
    /\ fn = FnIdle
    /\ latest = NoCommits
    /\ committedIn = NoRounds

AtomicLeak(ok, working, old) == working

\* A failed assert or panic rejects the whole transaction: none of its
\* writes to the ledger survive.
Atomic(ok, working, old) == IF ok THEN working ELSE old

\* k_permutation_logarithm(participants, winners, LOG_PRECISION) as commit
\* calls it, evaluated once for each pair commit is offered: the set of
\* <<participants, winners, logarithm>>
CommitEntropy ==
    {<<p[1], p[2], k_permutation_logarithm(FromNat(p[1]), p[2], LOG_PRECISION)>> :
        p \in {<<a[2], a[3]>> : a \in {b \in CommitArgs : 1 <= b[3] /\ b[3] <= b[2]}}}

EntropyOf(participants, winners) ==
    (CHOOSE e \in CommitEntropy : e[1] = participants /\ e[2] = winners)[3]

\* TemplateVar[UInt64](cfg.SAFETY_GAP) <= delay.native
DelayUnchecked(delay) == 0 <= delay

DelayAccepted(delay) == SAFETY_GAP <= delay

\* 2 <= participants.native
ParticipantsAtLeastOne(participants) == 1 <= participants

ParticipantsAccepted(participants) == 2 <= participants

\* the threshold one bit higher
SafeSizeAcceptedTo129(lg) ==
    lg # Abort /\ lg <= (SAFE_SIZE_BITS + 1) * Pow2(LOG_PRECISION)

\* k_permutation_logarithm(...) <= (128 << LOG_PRECISION), where a panic
\* inside the logarithm rejects the call as well
SafeSizeAccepted(lg) ==
    lg # Abort /\ lg <= SAFE_SIZE_BITS * Pow2(LOG_PRECISION)

\* the asserts of commit in order: the message of the first that fails
CommitError(delay, participants, winners) ==
    IF ~DelayAccepted(delay) THEN SAFE_GAP
    ELSE IF ~(1 <= winners /\ winners < MAX_WINNERS) THEN WINNERS_BOUND
    ELSE IF ~ParticipantsAccepted(participants) THEN PARTICIPANTS_BOUND
    ELSE IF ~(winners <= participants) THEN INPUT_SOUNDNESS
    ELSE IF ~SafeSizeAccepted(EntropyOf(participants, winners)) THEN SAFE_SIZE
    ELSE NoError

\* the same asserts for participants a wide natural up to 2^32 - 1, lg the
\* value of k_permutation_logarithm(participants, winners, LOG_PRECISION)
CommitErrorWide(delay, participants, winners, lg) ==
    IF ~DelayAccepted(delay) THEN SAFE_GAP
    ELSE IF ~(1 <= winners /\ winners < MAX_WINNERS) THEN WINNERS_BOUND
    ELSE IF ~BigGeq(participants, <<2>>) THEN PARTICIPANTS_BOUND
    ELSE IF ~BigLeq(FromNat(winners), participants) THEN INPUT_SOUNDNESS
    ELSE IF ~SafeSizeAccepted(lg) THEN SAFE_SIZE
    ELSE NoError

\* commit as executed by sender: the asserts, then the write of the record
\* with round = Global.round + delay and tx_id = Txn.tx_id
commit(sender, delay, participants, winners) ==
    \E err \in {CommitError(delay, participants, winners)} :
        LET record == [tx_id |-> txCount + 1, round |-> round + delay,
                       participants |-> participants, winners |-> winners]
            written == [a \in DOMAIN commitment \cup {sender} |->
                           IF a = sender THEN record ELSE commitment[a]]
        IN  /\ err = NoError => txCount < MaxTx
            /\ commitment' = Atomic(err = NoError, written, commitment)
            /\ txCount' = IF err = NoError THEN txCount + 1 ELSE txCount
            /\ last' = [op |-> "commit", sender |-> sender,
                        args |-> <<delay, participants, winners>>, round |-> round,
                        ok |-> err = NoError, err |-> err, commitment |-> <<>>,
                        ret |-> NoRet, seed |-> <<>>, beacon |-> <<>>, draws |-> <<>>]
            /\ latest' = IF err = NoError
                          THEN [latest EXCEPT ![sender] = txCount + 1]
                          ELSE latest
            /\ committedIn' = IF err = NoError
                               THEN [committedIn EXCEPT ![sender] = <<round>>]
                               ELSE committedIn
            /\ UNCHANGED <<round, revealed, sh, fn>>

KeepCommitment(ledger, sender) == ledger

\* the local state of every account deleted
DeleteEveryCommitment(ledger, sender) == [a \in {} |-> NoRet]

\* del self.commitment[Txn.sender]
DeleteCommitment(ledger, sender) ==
    [a \in DOMAIN ledger \ {sender} |-> ledger[a]]

RoundElapsedOffByOne(r, record) == r + 1 >= record.round

\* Global.round >= commitment.round.native
RoundElapsed(r, record) == r >= record.round

BeaconQueryWithoutNonce(record) == <<record.round, 0>>

\* arc4.abi_call("must_get", commitment.round, commitment.tx_id.bytes, ...)
BeaconQuery(record) == <<record.round, record.tx_id>>

ReturnValueOfNone(record, winners) == NoRet

\* return Reveal(commitment_tx_id=commitment.tx_id.copy(), winners=winners.copy())
ReturnValue(record, winners) ==
    [commitment_tx_id |-> record.tx_id, winners |-> winners]

\* reveal as executed by sender in round r, the scratch slots holding slots
\* at the start and the beacon answering with seed when beaconUp: the
\* outcome and the local state as the execution leaves it
RevealBody(sender, seed, beaconUp, slots, r) ==
    LET failed(e, ledger, read, queries, drawn) ==
            [ok |-> FALSE, err |-> e, commitment |-> ledger, read |-> read,
             ret |-> NoRet, beacon |-> queries, draws |-> drawn]
    IN  IF sender \notin DOMAIN commitment
        THEN failed(NO_LOCAL_STATE, commitment, <<>>, <<>>, <<>>)
        ELSE
        LET record == commitment[sender]
            deleted == DeleteCommitment(commitment, sender)
            query == BeaconQuery(record)
            run == Shuffle(slots, seed, record.participants, record.winners)
        IN  IF ~RoundElapsed(r, record)
            THEN failed(ROUND_ELAPSED, deleted, <<record>>, <<>>, <<>>)
            ELSE IF ~beaconUp
            THEN failed(BEACON_FAILED, deleted, <<record>>, <<query>>, <<>>)
            ELSE IF ~run.ok
            THEN failed(PRNG_RANGE, deleted, <<record>>, <<query>>, run.draws)
            ELSE [ok |-> TRUE, err |-> NoError, commitment |-> deleted,
                  read |-> <<record>>,
                  ret |-> ReturnValue(record, run.winners),
                  beacon |-> <<query>>, draws |-> run.draws]

reveal(sender, seed, beaconUp, slots) ==
    \E res \in {RevealBody(sender, seed, beaconUp, slots, round)} :
        /\ commitment' = Atomic(res.ok, res.commitment, commitment)
        /\ last' = [op |-> "reveal", sender |-> sender,
                    args |-> <<>>, round |-> round,
                    ok |-> res.ok, err |-> res.err, commitment |-> res.read,
                    ret |-> res.ret,
                    seed |-> IF res.beacon = <<>> \/ ~beaconUp THEN <<>> ELSE <<seed>>,
                    beacon |-> res.beacon, draws |-> res.draws]
        /\ revealed' =
               IF res.ok
               THEN revealed \cup {res.ret.commitment_tx_id}
               ELSE revealed
        /\ UNCHANGED <<round, txCount, sh, fn, latest, committedIn>>

\* the chain moves on to the next round
AdvanceRound ==
    /\ last = NoCall
    /\ round < MaxRound
    /\ round' = round + 1
    /\ UNCHANGED <<commitment, txCount, last, revealed, sh, fn, latest, committedIn>>

\* the caller has the outcome of its call; the next call can be submitted
Confirm ==
    /\ last # NoCall
    /\ last' = NoCall
    /\ UNCHANGED <<round, commitment, txCount, revealed, sh, fn, latest, committedIn>>

\* calls are executed one at a time, each by any account
Commit ==
    /\ last = NoCall
    /\ \E sender \in Accounts, a \in CommitArgs :
           commit(sender, a[1], a[2], a[3])

Reveal ==
    /\ last = NoCall
    /\ \E sender \in Accounts, seed \in BeaconOutputs, beaconUp \in BOOLEAN,
          slots \in StaleScratches :
           reveal(sender, seed, beaconUp, slots)

Next == Commit \/ Reveal \/ AdvanceRound \/ Confirm

Spec == Init /\ [][Next]_vars

\* a reveal of account a that the beacon answers
RevealAnswered(a) ==
    /\ last = NoCall
    /\ \E seed \in BeaconOutputs, slots \in StaleScratches :
           reveal(a, seed, TRUE, slots)

\* Spec where rounds keep coming, calls are confirmed, and every account
\* keeps calling reveal with the beacon answering
SpecFair ==
    /\ Spec
    /\ SF_vars(AdvanceRound)
    /\ WF_vars(Confirm)
    /\ \A a \in Accounts : []<><<RevealAnswered(a)>>_vars

(***************************************************************************)
(* SpecShuffle: reveal from the reset of the scratch slots on, one loop    *)
(* iteration at a time, for every valid record up to MaxN participants     *)
(* and two records with more participants than slots, for every beacon    *)
(* output, run twice: from stale slots, then from the slots the first run  *)
(* left.                                                                   *)
(***************************************************************************)
ShufflePairs ==
    {<<n, k>> \in (2..MaxN) \X (1..MaxN) : k <= n}
        \cup {<<BINS + 2, 3>>, <<BINS + 2, BINS + 2>>}

InitShuffle ==
    /\ round = 0
    /\ commitment = [a \in {} |-> NoRet]
    /\ txCount = 0
    /\ last = NoCall
    /\ revealed = {}
    /\ fn = FnIdle
    /\ latest = NoCommits
    /\ committedIn = NoRounds
    /\ \E p \in ShufflePairs, seed \in Seeds, slots \in StaleScratches :
          sh = [pc |-> "reset", n |-> p[1], k |-> p[2], seed |-> seed, i |-> 0,
                scratch |-> slots, winners |-> <<>>, draws |-> <<>>,
                run |-> 1, first |-> <<>>]

ShReset ==
    /\ sh.pc = "reset"
    /\ sh' = [sh EXCEPT !.pc = "loop", !.scratch = ResetScratch(@),
                        !.i = 0, !.winners = <<>>, !.draws = <<>>]
    /\ UNCHANGED <<round, commitment, txCount, last, revealed, fn, latest, committedIn>>

ShStep ==
    /\ sh.pc = "loop"
    /\ sh.i < NShuffles(sh.n, sh.k)
    /\ LET run == ShuffleLoop([scratch |-> sh.scratch, winners |-> sh.winners,
                               draws |-> sh.draws, ok |-> TRUE],
                              sh.seed, sh.i, sh.i + 1, sh.n)
       IN  sh' = [sh EXCEPT !.pc = IF run.ok THEN "loop" ELSE "failed",
                            !.scratch = run.scratch, !.winners = run.winners,
                            !.draws = run.draws, !.i = @ + 1]
    /\ UNCHANGED <<round, commitment, txCount, last, revealed, fn, latest, committedIn>>

ShLast ==
    /\ sh.pc = "loop"
    /\ sh.i >= NShuffles(sh.n, sh.k)
    /\ LET final == ShuffleLast([scratch |-> sh.scratch, winners |-> sh.winners],
                                sh.n, sh.k)
       IN  sh' = [sh EXCEPT !.pc = "done", !.winners = final.winners]
    /\ UNCHANGED <<round, commitment, txCount, last, revealed, fn, latest, committedIn>>

ShAgain ==
    /\ sh.pc = "done"
    /\ sh.run = 1
    /\ sh' = [sh EXCEPT !.pc = "reset", !.run = 2, !.first = sh.winners]
    /\ UNCHANGED <<round, commitment, txCount, last, revealed, fn, latest, committedIn>>

NextShuffle == ShReset \/ ShStep \/ ShLast \/ ShAgain

SpecShuffle == InitShuffle /\ [][NextShuffle]_vars

(***************************************************************************)
(* SpecDraws: the shuffle loop of reveal as a function of the draws.  Two  *)
(* reveals of the same record run side by side, one loop iteration at a    *)
(* time, each on a beacon output that makes the generator produce a chosen *)
(* draw sequence.                                                          *)
(***************************************************************************)
\* the sequences <<j_i, ..., j_(n_shuffles-1)>> with j_t in [t, n)
RECURSIVE DrawSequencesFrom(_, _, _)
DrawSequencesFrom(i, n_shuffles, n) ==
    IF i >= n_shuffles THEN {<<>>}
    ELSE {<<j>> \o rest : j \in i..(n - 1),
                          rest \in DrawSequencesFrom(i + 1, n_shuffles, n)}

DrawSequences(n, k) == DrawSequencesFrom(0, NShuffles(n, k), n)

\* a beacon output for which draw number c of the generator is d[c + 1]
SeedOfDraws(d) ==
    [c \in 0..(SeedLen - 1) |-> IF c < Len(d) THEN d[c + 1] - c ELSE 0]

\* the valid records whose draws one beacon output of the model can hold,
\* and one with more participants than slots
DrawPairs ==
    {p \in (2..MaxN) \X (1..MaxN) : p[2] <= p[1] /\ NShuffles(p[1], p[2]) <= SeedLen}
        \cup {<<BINS + 2, 2>>}

\* the loop is entered with the slots reset and no winner yet
StartRun ==
    [scratch |-> ResetScratch(EmptyScratch), winners |-> <<>>,
     draws |-> <<>>, ok |-> TRUE]

InitDraws ==
    /\ round = 0
    /\ commitment = [a \in {} |-> NoRet]
    /\ txCount = 0
    /\ last = NoCall
    /\ revealed = {}
    /\ sh = ShIdle
    /\ latest = NoCommits
    /\ committedIn = NoRounds
    /\ \E p \in DrawPairs :
          \E d1 \in DrawSequences(p[1], p[2]), d2 \in DrawSequences(p[1], p[2]) :
              fn = [pc |-> "loop", n |-> p[1], k |-> p[2], i |-> 0,
                    d |-> <<d1, d2>>, a |-> StartRun, b |-> StartRun]

DrStep ==
    /\ fn.pc = "loop"
    /\ fn.i < NShuffles(fn.n, fn.k)
    /\ fn' = [fn EXCEPT
                 !.a = ShuffleLoop(@, SeedOfDraws(fn.d[1]), fn.i, fn.i + 1, fn.n),
                 !.b = ShuffleLoop(@, SeedOfDraws(fn.d[2]), fn.i, fn.i + 1, fn.n),
                 !.i = @ + 1]
    /\ UNCHANGED <<round, commitment, txCount, last, revealed, sh, latest, committedIn>>

DrLast ==
    /\ fn.pc = "loop"
    /\ fn.i >= NShuffles(fn.n, fn.k)
    /\ fn' = [fn EXCEPT
                 !.pc = "done",
                 !.a.winners =
                     ShuffleLast([scratch |-> fn.a.scratch, winners |-> @],
                                 fn.n, fn.k).winners,
                 !.b.winners =
                     ShuffleLast([scratch |-> fn.b.scratch, winners |-> @],
                                 fn.n, fn.k).winners]
    /\ UNCHANGED <<round, commitment, txCount, last, revealed, sh, latest, committedIn>>

NextDraws == DrStep \/ DrLast

SpecDraws == InitDraws /\ [][NextDraws]_vars

(***************************************************************************)
(* SpecBins: the shuffle loop of reveal for a chosen draw sequence, one    *)
(* iteration at a time, with cfg.BINS set to other bucket counts than the  *)
(* one the contract is built with.                                         *)
(***************************************************************************)
\* the bucket counts: the smallest ones and the contract's
BinCounts == (1..MaxBins) \cup {BINS}

\* the swap looking index i up in the bucket of j
ShuffleStepBinsBucketOfJ(st, i, j, bins) ==
    LET i_search == linear_search(st.scratch[j % bins], i)
        i_value == IF i_search[1] THEN i_search[3] ELSE i
        j_bin == st.scratch[j % bins]
        j_search == linear_search(j_bin, j)
        j_value == IF j_search[1] THEN j_search[3] ELSE j
        new_bin == IF j_search[1]
                   THEN replace_word(j_bin, j_search[2] + 4, i_value)
                   ELSE j_bin \o <<j, i_value>>
    IN  [scratch |-> [st.scratch EXCEPT ![j % bins] = new_bin],
         winners |-> Append(st.winners, j_value)]

\* the swap written to the map by appending, whether j has an entry or not
ShuffleStepBinsAppending(st, i, j, bins) ==
    LET i_search == linear_search(st.scratch[i % bins], i)
        i_value == IF i_search[1] THEN i_search[3] ELSE i
        j_bin == st.scratch[j % bins]
        j_search == linear_search(j_bin, j)
        j_value == IF j_search[1] THEN j_search[3] ELSE j
    IN  [scratch |-> [st.scratch EXCEPT ![j % bins] = j_bin \o <<j, i_value>>],
         winners |-> Append(st.winners, j_value)]

\* one iteration of the shuffle loop with cfg.BINS = bins
ShuffleStepBins(st, i, j, bins) ==
    LET i_search == linear_search(st.scratch[i % bins], i)
        i_value == IF i_search[1] THEN i_search[3] ELSE i
        j_bin == st.scratch[j % bins]
        j_search == linear_search(j_bin, j)
        j_value == IF j_search[1] THEN j_search[3] ELSE j
        new_bin == IF j_search[1]
                   THEN replace_word(j_bin, j_search[2] + 4, i_value)
                   ELSE j_bin \o <<j, i_value>>
    IN  [scratch |-> [st.scratch EXCEPT ![j % bins] = new_bin],
         winners |-> Append(st.winners, j_value)]

\* the last slot appended, with cfg.BINS = bins
ShuffleLastBins(st, committed_participants, committed_winners, bins) ==
    IF committed_participants = committed_winners
    THEN LET key == committed_winners - 1
             search == linear_search(st.scratch[key % bins], key)
         IN  [st EXCEPT !.winners = Append(@, IF search[1] THEN search[3] ELSE key)]
    ELSE st

InitBins ==
    /\ round = 0
    /\ commitment = [a \in {} |-> NoRet]
    /\ txCount = 0
    /\ last = NoCall
    /\ revealed = {}
    /\ fn = FnIdle
    /\ latest = NoCommits
    /\ committedIn = NoRounds
    /\ \E p \in DrawPairs, bins \in BinCounts :
          \E d \in DrawSequences(p[1], p[2]) :
              sh = [pc |-> "loop", bins |-> bins, n |-> p[1], k |-> p[2],
                    seed |-> SeedOfDraws(d), i |-> 0,
                    scratch |-> [b \in 0..(bins - 1) |-> <<>>],
                    winners |-> <<>>, draws |-> <<>>]

\* one iteration; with the contract's bucket count it is ShuffleStep
BnStep ==
    /\ sh.pc = "loop"
    /\ sh.i < NShuffles(sh.n, sh.k)
    /\ ~pcg128_panics(sh.i, sh.n)
    /\ LET j == extract_low32(pcg128_random(sh.seed, sh.i, sh.i, sh.n))
           st == [scratch |-> sh.scratch, winners |-> sh.winners]
           stepped == IF sh.bins = BINS
                      THEN ShuffleStep(st, sh.i, j)
                      ELSE ShuffleStepBins(st, sh.i, j, sh.bins)
       IN  sh' = [sh EXCEPT !.scratch = stepped.scratch,
                            !.winners = stepped.winners,
                            !.draws = Append(@, <<sh.i, sh.i, sh.n, j>>),
                            !.i = @ + 1]
    /\ UNCHANGED <<round, commitment, txCount, last, revealed, fn, latest, committedIn>>

BnLast ==
    /\ sh.pc = "loop"
    /\ sh.i >= NShuffles(sh.n, sh.k)
    /\ LET st == [scratch |-> sh.scratch, winners |-> sh.winners]
           final == IF sh.bins = BINS
                    THEN ShuffleLast(st, sh.n, sh.k)
                    ELSE ShuffleLastBins(st, sh.n, sh.k, sh.bins)
       IN  sh' = [sh EXCEPT !.pc = "done", !.winners = final.winners]
    /\ UNCHANGED <<round, commitment, txCount, last, revealed, fn, latest, committedIn>>

NextBins == BnStep \/ BnLast

SpecBins == InitBins /\ [][NextBins]_vars

(***************************************************************************)
(* SpecLog: binary_logarithm and k_permutation_logarithm applied to their  *)
(* arguments, and k_permutation_logarithm applied again with n or k one    *)
(* larger.                                                                 *)
(***************************************************************************)
\* the numbers of fractional bits asked for: the small ones and commit's
Precisions == (0..MaxPrecision) \cup {LOG_PRECISION}

\* the powers of two a uint64 holds
PowersOfTwo == {BigPow2(i) : i \in 0..63}

\* the arguments offered to binary_logarithm
LogArguments == {FromNat(x) : x \in 1..MaxArg} \cup PowersOfTwo

\* the (n, k) offered to k_permutation_logarithm with few participants
SmallPairs == {<<FromNat(p[1]), p[2]>> : p \in {q \in (1..MaxArg) \X (1..MaxArg) : q[2] <= q[1]}}

\* the largest participants an arc4.UInt32 holds
MaxUInt32 == BigSub(BigPow2(32), <<1>>)

\* 3037000500: its product with 3037000499 is the last one below 2^63, so
\* that with one participant more the loop takes two logarithms, not one
LastUngrouped == BigAdd(BigMul(FromNat(30370), FromNat(100000)), FromNat(500))

\* the (n, k) offered at commit's precision only; 4 * ... * 21 < 2^63 is
\* one product and 3 * ... * 21 is not
LargePairs == {<<MaxUInt32, 4>>, <<LastUngrouped, 2>>, <<FromNat(21), 18>>}

\* the largest winners the entropy check accepts for 2^32 - 1, 2^16 - 1,
\* 2^8 - 1, 80, 47 and 35 participants
ThresholdPairs ==
    {<<MaxUInt32, 4>>, <<FromNat(65535), 8>>, <<FromNat(255), 16>>,
     <<FromNat(80), 20>>, <<FromNat(47), 25>>, <<FromNat(35), 30>>}

\* the (participants, winners) offered to the asserts of commit: the
\* thresholds, each with one winner more, 34 of 34, and the small ones
AssertPairs ==
    ThresholdPairs \cup {<<p[1], p[2] + 1>> : p \in ThresholdPairs}
        \cup {<<FromNat(34), 34>>} \cup SmallPairs

\* (participants, winners) with 35 winners or more, up to the largest
\* participants an arc4.UInt32 holds
OverCapPairs ==
    {<<FromNat(35), 35>>, <<FromNat(36), 35>>, <<FromNat(36), 36>>,
     <<FromNat(255), 35>>, <<FromNat(64), 64>>, <<MaxUInt32, 35>>}

FnCall(f, n, k, m) ==
    [pc |-> "call", f |-> f, n |-> n, k |-> k, m |-> m, r |-> 0, prev |-> <<>>,
     err |-> NoError]

\* the arguments whose loop is followed one iteration at a time: the small
\* ones, the large ones of the tests, 2^62 + 1, 2^62 + 2^61, and three that
\* need 64 bits
LoopArguments ==
    {FromNat(x) : x \in 1..MaxArg}
        \cup {BigSub(BigPow2(e), <<1>>) : e \in {10, 16, 32, 63}}
        \cup {BigAdd(BigPow2(62), <<1>>), BigAdd(BigPow2(62), BigPow2(61))}
        \cup {BigAdd(BigPow2(63), <<1>>), BigAdd(BigPow2(63), BigPow2(62)),
              BigSub(BigPow2(64), <<1>>)}

\* calls with more fractional bits than commit asks for: the logarithm of
\* 2^62 + 1, of 2^61 + 1 and of 2^32 + 1 to 58 and to 59 bits
WideCalls ==
    {BigAdd(BigPow2(e), <<1>>) : e \in {32, 61, 62}} \X {58, 59}

\* a call of binary_logarithm at its first line; integer_component and st
\* hold the locals once line 151 and line 158 have run, r the uint64
\* returned
LoopCall(n, m) ==
    [pc |-> "entry", f |-> "binary_logarithm", n |-> n, k |-> 0, m |-> m, r |-> 0,
     prev |-> <<>>, err |-> NoError, integer_component |-> 0, i |-> 0,
     st |-> [n |-> n, fractional_component |-> 0, ok |-> TRUE]]

\* the (n, k) whose loop is followed one iteration at a time: the small
\* ones, those of commit's thresholds, the first two terms whose product
\* needs 64 bits, 64 of 64, and the largest n of 63 bits
LoopPairs ==
    SmallPairs \cup LargePairs \cup ThresholdPairs
        \cup {<<BigAdd(LastUngrouped, <<1>>), 2>>, <<FromNat(64), 64>>,
              <<MaxUInt32, 35>>}
        \cup {<<BigSub(BigPow2(63), <<1>>), k>> : k \in 1..3}

\* a call of k_permutation_logarithm once lines 198-199 have run.  t counts
\* the terms taken, args lists the arguments given to binary_logarithm;
\* runs and run_from record, for each argument and for the running product,
\* the terms multiplied into it (the j-th term is n - k + j)
KPermCall(n, k, m) ==
    [pc |-> "loop", f |-> "k_permutation_logarithm", n |-> n, k |-> k, m |-> m,
     r |-> 0, prev |-> <<>>, err |-> NoError, t |-> 0,
     acc |-> [largest_log_arg |-> <<1>>, summation |-> 0, ok |-> TRUE],
     args |-> <<>>, runs |-> <<>>, run_from |-> 1]

InitLog ==
    /\ round = 0
    /\ commitment = [a \in {} |-> NoRet]
    /\ txCount = 0
    /\ last = NoCall
    /\ revealed = {}
    /\ sh = ShIdle
    /\ latest = NoCommits
    /\ committedIn = NoRounds
    /\ \/ \E n \in LogArguments, m \in Precisions :
             fn = FnCall("binary_logarithm", n, 0, m)
       \/ \E p \in SmallPairs, m \in Precisions :
             fn = FnCall("k_permutation_logarithm", p[1], p[2], m)
       \/ \E p \in LargePairs \cup OverCapPairs :
             fn = FnCall("k_permutation_logarithm", p[1], p[2], LOG_PRECISION)
       \/ \E p \in AssertPairs \cup OverCapPairs :
             fn = FnCall("commit", p[1], p[2], LOG_PRECISION)
       \/ \E n \in LoopArguments, m \in Precisions :
             fn = LoopCall(n, m)
       \/ \E c \in WideCalls :
             fn = LoopCall(c[1], c[2])
       \/ \E p \in LoopPairs :
             fn = KPermCall(p[1], p[2], LOG_PRECISION)

LgBinaryLogarithm ==
    /\ fn.pc = "call" /\ fn.f = "binary_logarithm"
    /\ fn' = [fn EXCEPT !.pc = "done", !.r = binary_logarithm(fn.n, fn.m)]
    /\ UNCHANGED <<round, commitment, txCount, last, revealed, sh, latest, committedIn>>

LgKPermutationLogarithm ==
    /\ fn.pc = "call" /\ fn.f = "k_permutation_logarithm"
    /\ fn' = [fn EXCEPT !.pc = "done",
                        !.r = k_permutation_logarithm(fn.n, fn.k, fn.m)]
    /\ UNCHANGED <<round, commitment, txCount, last, revealed, sh, latest, committedIn>>

\* the same call with one participant more
LgMoreParticipants ==
    /\ fn.pc = "done" /\ fn.f = "k_permutation_logarithm" /\ fn.prev = <<>>
    /\ fn.n # MaxUInt32
    /\ fn' = [fn EXCEPT
                 !.n = BigAdd(@, <<1>>),
                 !.r = k_permutation_logarithm(BigAdd(fn.n, <<1>>), fn.k, fn.m),
                 !.prev = <<[n |-> fn.n, k |-> fn.k, r |-> fn.r]>>]
    /\ UNCHANGED <<round, commitment, txCount, last, revealed, sh, latest, committedIn>>

\* the same call with one winner more
LgMoreWinners ==
    /\ fn.pc = "done" /\ fn.f = "k_permutation_logarithm" /\ fn.prev = <<>>
    /\ BigGeq(fn.n, FromNat(fn.k + 1))
    /\ fn' = [fn EXCEPT
                 !.k = @ + 1,
                 !.r = k_permutation_logarithm(fn.n, fn.k + 1, fn.m),
                 !.prev = <<[n |-> fn.n, k |-> fn.k, r |-> fn.r]>>]
    /\ UNCHANGED <<round, commitment, txCount, last, revealed, sh, latest, committedIn>>

\* the asserts of commit for a delay of SAFETY_GAP: err is the message of
\* the assert that failed, r the entropy of the pair, which commit computes
\* once the asserts before SAFE_SIZE have passed
LgCommitAsserts ==
    /\ fn.pc = "call" /\ fn.f = "commit"
    /\ \E lg \in {k_permutation_logarithm(fn.n, fn.k, fn.m)} :
           fn' = [fn EXCEPT !.pc = "done", !.r = lg,
                            !.err = CommitErrorWide(SAFETY_GAP, fn.n, fn.k, lg)]
    /\ UNCHANGED <<round, commitment, txCount, last, revealed, sh, latest, committedIn>>

\* lines 201-207: one iteration
KpIter ==
    /\ fn.f = "k_permutation_logarithm" /\ fn.pc = "loop" /\ fn.t < fn.k
    /\ \E i \in {BigAdd(BigSub(fn.n, FromNat(fn.k)), FromNat(fn.t + 1))} :
       \E next \in {KPermIter(fn.acc, i, fn.m)} :
           fn' = IF ~next.ok
                 THEN [fn EXCEPT !.pc = "panicked", !.r = Abort]
                 ELSE [fn EXCEPT
                          !.t = @ + 1,
                          !.acc = [largest_log_arg |-> next.largest_log_arg,
                                   summation |-> next.summation, ok |-> TRUE],
                          !.args = @ \o next.passed,
                          !.runs = IF next.passed = <<>> THEN @
                                   ELSE Append(@, <<fn.run_from, fn.t>>),
                          !.run_from = IF next.passed = <<>> THEN @
                                       ELSE fn.t + 1]
    /\ UNCHANGED <<round, commitment, txCount, last, revealed, sh, latest, committedIn>>

\* lines 208-210
KpReturn ==
    /\ fn.f = "k_permutation_logarithm" /\ fn.pc = "loop" /\ fn.t = fn.k
    /\ \E lg \in {binary_logarithm(fn.acc.largest_log_arg, fn.m)} :
           fn' = [fn EXCEPT
                    !.pc = IF lg = Abort THEN "panicked" ELSE "returned",
                    !.r = KPermLast(fn.acc, lg),
                    !.args = Append(@, fn.acc.largest_log_arg),
                    !.runs = Append(@, <<fn.run_from, fn.k>>)]
    /\ UNCHANGED <<round, commitment, txCount, last, revealed, sh, latest, committedIn>>

\* lines 151-158: the integer part, and the return of a power of two
BlEntry ==
    /\ fn.f = "binary_logarithm" /\ fn.pc = "entry"
    /\ \E c \in {bitlen(fn.n) - 1} :
           fn' = IF fn.n = BigPow2(c)
                 THEN [fn EXCEPT !.pc = "returned", !.integer_component = c,
                                 !.r = shl(FromNat(c), fn.m)]
                 ELSE [fn EXCEPT !.pc = "loop", !.integer_component = c]
    /\ UNCHANGED <<round, commitment, txCount, last, revealed, sh, latest, committedIn>>

\* lines 159-168: one iteration; the call ends when op.divw panics
BlIter ==
    /\ fn.f = "binary_logarithm" /\ fn.pc = "loop" /\ fn.i < fn.m
    /\ \E next \in {BinLogIter(fn.st, fn.integer_component)} :
           fn' = IF next.ok
                 THEN [fn EXCEPT !.i = @ + 1, !.st = next]
                 ELSE [fn EXCEPT !.pc = "panicked", !.st = next, !.r = Abort]
    /\ UNCHANGED <<round, commitment, txCount, last, revealed, sh, latest, committedIn>>

\* line 170
BlReturn ==
    /\ fn.f = "binary_logarithm" /\ fn.pc = "loop" /\ fn.i = fn.m
    /\ fn' = [fn EXCEPT !.pc = "returned",
                        !.r = BigOr(shl(FromNat(fn.integer_component), fn.m),
                                    FromNat(fn.st.fractional_component))]
    /\ UNCHANGED <<round, commitment, txCount, last, revealed, sh, latest, committedIn>>

NextLog ==
    \/ LgBinaryLogarithm \/ LgKPermutationLogarithm
    \/ LgMoreParticipants \/ LgMoreWinners
    \/ LgCommitAsserts
    \/ BlEntry \/ BlIter \/ BlReturn
    \/ KpIter \/ KpReturn

SpecLog == InitLog /\ [][NextLog]_vars

(***************************************************************************)
(* Properties of the protocol (Spec)                                       *)
(***************************************************************************)
\* the step is a call of the contract: it leaves in last the outcome of a
\* commit or of a reveal
IsCall(op) == last' # last /\ last'.op = op

\* C1: a reveal succeeds only in a round >= the target round of the record
\* it read; no record is revealed before its target round.
C1_RevealNotBeforeTarget ==
    (last.op = "reveal" /\ last.ok) =>
        /\ Len(last.commitment) = 1
        /\ last.round >= last.commitment[1].round

C1_Witness ==
    /\ last.op = "reveal" /\ last.ok
    /\ last.round = last.commitment[1].round

\* C2: a reveal that reads a record whose target round is above the
\* current round fails with ROUND_ELAPSED, and the caller still holds the
\* very record the reveal read (and deleted before checking the round).
C2_EarlyRevealKeepsRecord ==
    (last.op = "reveal" /\ Len(last.commitment) = 1
        /\ last.round < last.commitment[1].round)
    => /\ ~last.ok
       /\ last.err = ROUND_ELAPSED
       /\ last.sender \in DOMAIN commitment
       /\ commitment[last.sender] = last.commitment[1]

\* an early reveal has failed, its record is still there, untouched
C2_Witness ==
    /\ last.op = "reveal" /\ ~last.ok /\ last.err = ROUND_ELAPSED
    /\ last.sender \in DOMAIN commitment
    /\ commitment[last.sender] = last.commitment[1]
    /\ last.round < commitment[last.sender].round

\* C3: a successful reveal removes the caller's record and returns a
\* request id no earlier reveal has returned; a reveal by an account
\* without a record fails and changes nothing.
C3_NoReplay ==
    [][IsCall("reveal") =>
          /\ last'.ok =>
                /\ last'.sender \notin DOMAIN commitment'
                /\ last'.ret.commitment_tx_id \notin revealed
          /\ last'.sender \notin DOMAIN commitment =>
                (~last'.ok /\ UNCHANGED <<round, commitment, txCount, revealed>>)]_vars

\* a second reveal right after a successful one has failed for want of a record
C3_Witness ==
    /\ last.op = "reveal" /\ ~last.ok /\ last.err = NO_LOCAL_STATE
    /\ revealed # {}
    /\ last.sender \notin DOMAIN commitment

\* C12: a successful reveal returns the request id of the record stored by
\* the caller's most recent successful commit, and winners that are the
\* shuffle of that record's participants and winners under the beacon
\* output; a successful commit stores its arguments under its own
\* transaction id.
C12_RevealReturnsLatestCommit ==
    [][
        /\ (IsCall("commit") /\ last'.ok) =>
              /\ commitment'[last'.sender].tx_id = txCount'
              /\ commitment'[last'.sender].participants = last'.args[2]
              /\ commitment'[last'.sender].winners = last'.args[3]
              /\ latest'[last'.sender] = txCount'
        /\ (IsCall("reveal") /\ last'.ok) =>
              /\ last'.sender \in DOMAIN commitment
              /\ commitment[last'.sender].tx_id = latest[last'.sender]
              /\ last'.ret.commitment_tx_id = latest[last'.sender]
              /\ Len(last'.ret.winners) = commitment[last'.sender].winners
              /\ last'.ret.winners =
                     Shuffle(EmptyScratch, last'.seed[1],
                             commitment[last'.sender].participants,
                             commitment[last'.sender].winners).winners
    ]_vars

\* the caller committed twice and has revealed the later request
C12_Witness ==
    /\ last.op = "reveal" /\ last.ok
    /\ last.ret.commitment_tx_id = 2
    /\ latest[last.sender] = 2
    /\ latest = [a \in Accounts |-> IF a = last.sender THEN 2 ELSE 0]

\* C13: a reveal that gets past the round check queries the beacon once,
\* for the target round of the record it read with the record's request id
\* as nonce, and a reveal that fails earlier does not query it; every draw
\* of a successful reveal is the generator's output for the beacon's answer,
\* the draw's number and the range [i, participants), and nothing else.
C13_SeedBoundToCommitment ==
    last.op = "reveal" =>
        /\ Len(last.beacon) <= 1
        /\ last.err \in {NO_LOCAL_STATE, ROUND_ELAPSED} => last.beacon = <<>>
        /\ last.err \notin {NO_LOCAL_STATE, ROUND_ELAPSED} =>
              last.beacon =
                  <<<<last.commitment[1].round, last.commitment[1].tx_id>>>>
        /\ last.ok =>
              /\ Len(last.seed) = 1
              /\ \A t \in 1..Len(last.draws) :
                    last.draws[t][4] =
                        extract_low32(pcg128_random(last.seed[1], t - 1, t - 1,
                                                    last.commitment[1].participants))

\* the second request revealed a round after its target round
C13_Witness ==
    /\ last.op = "reveal" /\ last.ok
    /\ last.beacon = <<<<1, 2>>>>
    /\ last.round = 2
    /\ Len(last.draws) >= 1

\* C4: every record commit has stored admits at most 2^128 ordered
\* k-permutations: participants!/(participants-winners)! <= 2^128.
C4_PermutationsWithinSeedBound ==
    \A a \in DOMAIN commitment :
        BigLeq(FallingFactorial(FromNat(commitment[a].participants),
                                commitment[a].winners),
               BigPow2(SAFE_SIZE_BITS))

\* the checks commit makes, restated from the arguments alone
ArgsPass(delay, participants, winners) ==
    /\ delay >= SAFETY_GAP
    /\ 1 <= winners /\ winners <= 34
    /\ 2 <= participants
    /\ winners <= participants
    /\ EntropyOf(participants, winners) # Abort
    /\ EntropyOf(participants, winners) <= SAFE_SIZE_BITS * Pow2(LOG_PRECISION)

\* C5: every stored record has 2 <= participants, 1 <= winners <= 34,
\* winners <= participants and an entropy estimate within 128 << 16, and a
\* commit succeeds only with arguments that pass every check, the delay
\* check included.
C5_RecordsPassChecks ==
    /\ \A a \in DOMAIN commitment :
          ArgsPass(SAFETY_GAP, commitment[a].participants, commitment[a].winners)
    /\ (last.op = "commit" /\ last.ok) =>
          ArgsPass(last.args[1], last.args[2], last.args[3])

C5_Witness ==
    /\ last.op = "commit" /\ last.ok
    /\ \E a \in DOMAIN commitment : commitment[a].winners = 7

\* C6: a commit whose arguments fail a check changes nothing: no record
\* appears and the caller's record, if any, stays as it was.
C6_RejectedCommitChangesNothing ==
    [][(IsCall("commit") /\ ~ArgsPass(last'.args[1], last'.args[2], last'.args[3]))
          => /\ ~last'.ok
             /\ UNCHANGED <<round, commitment, txCount, revealed>>]_vars

\* the owner of a live record has had a commit rejected
C6_Witness ==
    /\ last.op = "commit" /\ ~last.ok
    /\ last.sender \in DOMAIN commitment

(***************************************************************************)
(* Properties of the shuffle (SpecShuffle)                                 *)
(***************************************************************************)
\* the value of index x as the map in the slots gives it: its entry where
\* there is one, x itself otherwise
MapValue(slots, x) ==
    LET bucket == slots[x % BINS]
        hits == {t \in 1..(Len(bucket) \div 2) : bucket[2 * t - 1] = x}
    IN  IF hits = {} THEN x ELSE bucket[2 * (CHOOSE t \in hits : TRUE)]

Min(a, b) == IF a <= b THEN a ELSE b

\* C7: the winners reveal returns for a valid record are exactly k values
\* of 0..n-1, no value twice.
C7_WinnersDistinctInRange ==
    sh.pc = "done" =>
        /\ Len(sh.winners) = sh.k
        /\ \A t \in 1..Len(sh.winners) : sh.winners[t] \in 0..(sh.n - 1)
        /\ \A t, u \in 1..Len(sh.winners) : t # u => sh.winners[t] # sh.winners[u]

\* three winners or more, one of them a value an earlier step displaced
C7_Witness ==
    /\ sh.pc = "done" /\ sh.k >= 3 /\ sh.k < sh.n
    /\ \E t \in 2..Len(sh.winners) : sh.winners[t] < t - 1

\* C8: the loop starts on empty slots whatever they held, and a second run
\* with the same (n, k, seed), started on the slots the first run left,
\* returns the same winners as the first, itself started on stale slots.
C8_Deterministic ==
    /\ (sh.pc = "loop" /\ sh.i = 0) => sh.scratch = EmptyScratch
    /\ (sh.pc = "done" /\ sh.run = 2) => sh.winners = sh.first

\* both runs have written entries, so the second run found some
C8_Witness ==
    /\ sh.pc = "done" /\ sh.run = 2
    /\ sh.scratch # EmptyScratch
    /\ sh.first = sh.winners /\ Len(sh.first) >= 2

\* C9: with winners = participants the loop makes n - 1 steps, one winner
\* each, and reveal returns a permutation of 0..n-1 whose last element is
\* the value of index n - 1 in the map.
C9_FullPermutation ==
    sh.k = sh.n =>
        /\ sh.pc = "loop" => (Len(sh.winners) = sh.i /\ sh.i <= sh.n - 1)
        /\ sh.pc = "done" =>
              /\ Len(sh.winners) = sh.n
              /\ {sh.winners[t] : t \in 1..Len(sh.winners)} = 0..(sh.n - 1)
              /\ Len(sh.draws) = sh.n - 1
              /\ sh.winners[sh.n] = MapValue(sh.scratch, sh.n - 1)

\* the last slot was displaced: its value comes from the map
C9_Witness ==
    /\ sh.pc = "done" /\ sh.k = sh.n /\ sh.n >= 3
    /\ sh.winners[sh.n] # sh.n - 1

\* C10: the draws reveal requests are numbered 0, 1, ..., the i-th over
\* [i, n), a range of two values at least; the generator never refuses,
\* and a finished reveal has made min(k, n - 1) of them.
C10_DrawRanges ==
    /\ sh.pc # "failed"
    /\ \A t \in 1..Len(sh.draws) :
          /\ sh.draws[t][1] = t - 1
          /\ sh.draws[t][2] = t - 1
          /\ sh.draws[t][3] = sh.n
          /\ sh.draws[t][3] - sh.draws[t][2] >= 2
          /\ sh.draws[t][4] \in sh.draws[t][2]..(sh.draws[t][3] - 1)
    /\ sh.pc = "done" => Len(sh.draws) = Min(sh.k, sh.n - 1)

\* winners = participants: the last draw made is over a range of two
C10_Witness ==
    /\ sh.pc = "done" /\ sh.k = sh.n /\ sh.n >= 3
    /\ sh.draws[Len(sh.draws)][3] - sh.draws[Len(sh.draws)][2] = 2

(***************************************************************************)
(* Properties of the shuffle as a function of the draws (SpecDraws)        *)
(***************************************************************************)
\* the ordered k-permutations of 0..n-1
KPermutations(n, k) ==
    {w \in [1..k -> 0..(n - 1)] : \A t, u \in 1..k : t # u => w[t] # w[u]}

\* for each record of DrawPairs: the winners reveal returns over all its
\* draw sequences, and its k-permutations
WinnersImage ==
    {<<p[1], p[2],
       {Shuffle(EmptyScratch, SeedOfDraws(d), p[1], p[2]).winners :
            d \in DrawSequences(p[1], p[2])},
       KPermutations(p[1], p[2])>> : p \in DrawPairs}

ImageOf(n, k) == CHOOSE e \in WinnersImage : e[1] = n /\ e[2] = k

DrawsMade(run) == [t \in 1..Len(run.draws) |-> run.draws[t][4]]

\* C11: for a valid (n, k) the winners are a one-to-one function of the
\* draw sequence (j_0, ..., j_(s-1)), s = min(k, n-1), j_i in [i, n), onto
\* the ordered k-permutations of 0..n-1: two reveals whose draws differ
\* return different winners, and every k-permutation is returned for some
\* draw sequence.
C11_DrawsToWinnersBijective ==
    fn.pc = "done" =>
        /\ fn.a.ok /\ fn.b.ok
        /\ DrawsMade(fn.a) = fn.d[1] /\ DrawsMade(fn.b) = fn.d[2]
        /\ Len(fn.d[1]) = Min(fn.k, fn.n - 1)
        /\ fn.d[1] # fn.d[2] => fn.a.winners # fn.b.winners
        /\ fn.a.winners \in ImageOf(fn.n, fn.k)[4]
        /\ ImageOf(fn.n, fn.k)[3] = ImageOf(fn.n, fn.k)[4]

\* two reveals of a full shuffle whose draws differ in the last one only
C11_Witness ==
    /\ fn.pc = "done" /\ fn.n >= 3 /\ fn.k = fn.n
    /\ fn.d[1] # fn.d[2]
    /\ SubSeq(fn.d[1], 1, fn.n - 2) = SubSeq(fn.d[2], 1, fn.n - 2)
    /\ fn.a.winners # fn.b.winners

RECURSIVE BigPowPow2(_, _)
BigPowPow2(a, m) == IF m = 0 THEN a ELSE BigPowPow2(BigMul(a, a), m - 1)

\* 2^r >= x^(2^m): r does not underestimate log2(x) * 2^m
NotUnderestimate(r, x, m) == BigGeq(BigPow2(r), BigPowPow2(x, m))

\* C15: for every n with 1 <= n < 2^63 and every precision m, the result r
\* of binary_logarithm(n, m) has its lowest bit set when n is not a power of
\* two, and 2^r >= n^(2^m).
C15_UpperBoundWithForcedBit ==
    (/\ fn.pc = "done" /\ fn.f = "binary_logarithm"
     /\ fn.m <= MaxPrecision /\ bitlen(fn.n) <= 63) =>
        /\ fn.r # Abort
        /\ fn.n \notin PowersOfTwo => fn.r % 2 = 1
        /\ NotUnderestimate(fn.r, fn.n, fn.m)

\* C16: for every 1 <= k <= n and every precision m, the result S of
\* k_permutation_logarithm(n, k, m) is an upper bound:
\* 2^S >= (n * (n-1) * ... * (n-k+1))^(2^m).
C16_KPermutationUpperBound ==
    (/\ fn.pc = "done" /\ fn.f = "k_permutation_logarithm"
     /\ fn.m <= MaxPrecision /\ fn.prev = <<>>) =>
        /\ fn.r # Abort
        /\ NotUnderestimate(fn.r, FallingFactorial(fn.n, fn.k), fn.m)

\* C17: k_permutation_logarithm does not decrease when n or k grows by one:
\* k_permutation_logarithm(n+1, k, m) >= k_permutation_logarithm(n, k, m)
\* and, for k+1 <= n, k_permutation_logarithm(n, k+1, m) >=
\* k_permutation_logarithm(n, k, m), also when the larger argument changes
\* which consecutive terms are multiplied together.
C17_Monotone ==
    (fn.pc = "done" /\ fn.f = "k_permutation_logarithm" /\ fn.prev # <<>>) =>
        /\ fn.r # Abort /\ fn.prev[1].r # Abort
        /\ fn.r >= fn.prev[1].r

\* one participant more splits the product of two terms into two logarithms
C17_Witness ==
    /\ fn.pc = "done" /\ fn.f = "k_permutation_logarithm" /\ fn.prev # <<>>
    /\ fn.prev[1].n = LastUngrouped /\ fn.k = 2 /\ fn.prev[1].k = 2
    /\ fn.n = BigAdd(LastUngrouped, <<1>>)
    /\ fn.prev[1].r = 4128767 /\ fn.r = 4128768

\* C18: the entropy check accepts exactly up to the largest k with
\* n!/(n-k)! <= 2^128: commit accepts (2^32-1, 4), (2^16-1, 8), (2^8-1, 16),
\* (80, 20), (47, 25), (35, 30) and (34, 34), rejects each of the first six
\* with one winner more by SAFE_SIZE, and accepts every count of at least 2
\* participants with up to 4 winners.
C18_ThresholdAtSeedSize ==
    (fn.pc = "done" /\ fn.f = "commit") =>
        /\ <<fn.n, fn.k>> \in ThresholdPairs \cup {<<FromNat(34), 34>>} =>
              /\ fn.err = NoError
              /\ BigLeq(FallingFactorial(fn.n, fn.k), BigPow2(SAFE_SIZE_BITS))
        /\ <<fn.n, fn.k - 1>> \in ThresholdPairs =>
              /\ fn.err = SAFE_SIZE
              /\ ~BigLeq(FallingFactorial(fn.n, fn.k), BigPow2(SAFE_SIZE_BITS))
        /\ (BigGeq(fn.n, <<2>>) /\ fn.k <= 4) => fn.err = NoError

\* 2^32 - 1 participants and 5 winners: rejected by the entropy check
C18_Witness ==
    /\ fn.pc = "done" /\ fn.f = "commit"
    /\ fn.n = MaxUInt32 /\ fn.k = 5
    /\ fn.r = 10485755 /\ fn.err = SAFE_SIZE

\* C19: for 35 <= k <= n, k_permutation_logarithm(n, k, LOG_PRECISION) is
\* above 128 << LOG_PRECISION, so whatever commit rejects by the bound on
\* winners (1 <= winners) the entropy check rejects as well.
C19_CapFollowsFromEntropy ==
    /\ (/\ fn.pc = "done" /\ fn.f \in {"k_permutation_logarithm", "commit"}
        /\ fn.m = LOG_PRECISION /\ fn.k >= 35) =>
           /\ fn.r # Abort
           /\ fn.r > SAFE_SIZE_BITS * Pow2(LOG_PRECISION)
    /\ (/\ fn.pc = "done" /\ fn.f = "commit"
        /\ fn.err = WINNERS_BOUND /\ fn.k >= 1) =>
           /\ fn.r # Abort
           /\ fn.r > SAFE_SIZE_BITS * Pow2(LOG_PRECISION)

\* 35 winners of 35 participants: rejected by the bound on winners, with an
\* entropy over the threshold
C19_Witness ==
    /\ fn.pc = "done" /\ fn.f = "commit"
    /\ fn.n = FromNat(35) /\ fn.k = 35
    /\ fn.err = WINNERS_BOUND /\ fn.r = 8711292

(***************************************************************************)
(* Lifecycle of the records (Spec)                                         *)
(***************************************************************************)
\* C20: a record appears only by a successful commit of its owner, and a
\* record commit has stored stays as it is (tx_id, round, participants,
\* winners) in every step but a successful reveal of its owner, which
\* removes it; a further commit of the owner leaves it as it is.
C20_RecordLivesUntilReveal ==
    [][
        /\ \A a \in DOMAIN commitment' \ DOMAIN commitment :
              IsCall("commit") /\ last'.ok /\ last'.sender = a
        /\ \A a \in DOMAIN commitment :
              \/ a \in DOMAIN commitment' /\ commitment'[a] = commitment[a]
              \/ /\ IsCall("reveal") /\ last'.ok /\ last'.sender = a
                 /\ a \notin DOMAIN commitment'
    ]_vars

\* C21: a reveal whose beacon call fails is a failed call that returns no
\* winners and leaves every record, the caller's included, as it was; and a
\* reveal of a record whose target round has come, answered by the beacon,
\* succeeds on the record the caller holds, whatever failed before.
C21_BeaconFailureIsRetryable ==
    [][
        /\ (IsCall("reveal") /\ last'.err = BEACON_FAILED) =>
              /\ ~last'.ok
              /\ last'.ret = NoRet /\ last'.draws = <<>>
              /\ last'.sender \in DOMAIN commitment'
              /\ commitment'[last'.sender] = last'.commitment[1]
              /\ UNCHANGED <<round, commitment, txCount, revealed, latest>>
        /\ (/\ IsCall("reveal") /\ last'.seed # <<>>
            /\ last'.sender \in DOMAIN commitment
            /\ round >= commitment[last'.sender].round) =>
              /\ last'.ok
              /\ last'.commitment = <<commitment[last'.sender]>>
              /\ last'.ret.commitment_tx_id = commitment[last'.sender].tx_id
    ]_vars

\* the beacon has not answered for a record whose round had come: the
\* record is still the caller's
C21_Witness ==
    /\ last.op = "reveal" /\ ~last.ok /\ last.err = BEACON_FAILED
    /\ last.beacon # <<>> /\ last.seed = <<>>
    /\ last.sender \in DOMAIN commitment
    /\ commitment[last.sender] = last.commitment[1]
    /\ last.round >= commitment[last.sender].round

\* account a holds the record of request t, whose target round the chain
\* reaches
Holds(a, t) ==
    /\ a \in DOMAIN commitment
    /\ commitment[a].tx_id = t
    /\ commitment[a].round <= MaxRound

\* C22: a record never expires: a reveal of its owner in a round >= its
\* target round fails only if the beacon does not answer; and when rounds
\* keep advancing and the owner keeps calling reveal with the beacon
\* answering, every record commit has stored is eventually revealed.
C22_NeverExpiresEventuallyRevealed ==
    /\ [][(/\ IsCall("reveal")
           /\ last'.sender \in DOMAIN commitment
           /\ round >= commitment[last'.sender].round
           /\ ~last'.ok) => last'.err = BEACON_FAILED]_vars
    /\ \A a \in Accounts : \A t \in 1..MaxTx :
          Holds(a, t) ~> (t \in revealed)

\* the same, for a record its owner does not replace by a later commit
RevealedUnlessReplaced ==
    \A a \in Accounts : \A t \in 1..MaxTx :
        Holds(a, t) ~> (t \in revealed \/ latest[a] # t)

(***************************************************************************)
(* The safety gap (Spec)                                                   *)
(***************************************************************************)
\* C23: the record a commit stores has round = the round of the commit +
\* delay, delay >= SAFETY_GAP; every record held was stored SAFETY_GAP
\* rounds or more before its target round; a successful reveal happens
\* SAFETY_GAP rounds or more after the commit that stored its record, and
\* the round it asks the beacon for was after the round of that commit.
C23_TargetRoundAfterCommit ==
    [][
        /\ (IsCall("commit") /\ last'.ok) =>
              /\ last'.args[1] >= SAFETY_GAP
              /\ commitment'[last'.sender].round = round + last'.args[1]
              /\ committedIn'[last'.sender] = <<round>>
        /\ \A a \in DOMAIN commitment' :
              /\ committedIn'[a] # <<>>
              /\ commitment'[a].round >= committedIn'[a][1] + SAFETY_GAP
        /\ (IsCall("reveal") /\ last'.ok) =>
              /\ round >= committedIn[last'.sender][1] + SAFETY_GAP
              /\ last'.beacon[1][1] = commitment[last'.sender].round
              /\ SAFETY_GAP >= 1 => last'.beacon[1][1] > committedIn[last'.sender][1]
    ]_vars

\* a reveal has succeeded exactly SAFETY_GAP rounds after its commit
C23_Witness ==
    /\ last.op = "reveal" /\ last.ok
    /\ committedIn[last.sender] # <<>>
    /\ last.round = committedIn[last.sender][1] + SAFETY_GAP
    /\ last.commitment[1].round = last.round
    /\ last.commitment[1].tx_id = latest[last.sender]

(***************************************************************************)
(* Isolation of the accounts (Spec)                                        *)
(***************************************************************************)
\* C24: a commit or a reveal of an account, successful or not, leaves the
\* record of every other account, or its having none, as it was; and the
\* outcome of a reveal is decided by the caller's own record, the round
\* and the beacon's answer alone.
C24_AccountsIsolated ==
    [][
        /\ (IsCall("commit") \/ IsCall("reveal")) =>
              \A b \in Accounts \ {last'.sender} :
                  /\ b \in DOMAIN commitment' <=> b \in DOMAIN commitment
                  /\ b \in DOMAIN commitment => commitment'[b] = commitment[b]
        /\ IsCall("reveal") =>
              IF last'.sender \notin DOMAIN commitment
              THEN ~last'.ok /\ last'.err = NO_LOCAL_STATE
              ELSE IF round < commitment[last'.sender].round
              THEN ~last'.ok /\ last'.err = ROUND_ELAPSED
              ELSE IF last'.seed = <<>>
              THEN ~last'.ok /\ last'.err = BEACON_FAILED
              ELSE /\ last'.ok
                   /\ last'.ret =
                          [commitment_tx_id |-> commitment[last'.sender].tx_id,
                           winners |->
                               Shuffle(EmptyScratch, last'.seed[1],
                                       commitment[last'.sender].participants,
                                       commitment[last'.sender].winners).winners]
    ]_vars

\* an account has revealed while another one holds the record of its own
\* latest commit
C24_Witness ==
    /\ last.op = "reveal" /\ last.ok
    /\ \E b \in Accounts \ {last.sender} :
           /\ b \in DOMAIN commitment
           /\ commitment[b].tx_id = latest[b]
           /\ commitment[b].tx_id < last.ret.commitment_tx_id

(***************************************************************************)
(* The sparse map against the dense shuffle (SpecBins)                     *)
(***************************************************************************)
\* the array [0, 1, ..., n-1] after swap(a[i], a[j_i]) for the draws from
\* number t on
RECURSIVE DenseAfter(_, _, _)
DenseAfter(a, draws, t) ==
    IF t > Len(draws) THEN a
    ELSE DenseAfter([a EXCEPT ![draws[t][1]] = a[draws[t][4]],
                              ![draws[t][4]] = a[draws[t][1]]],
                    draws, t + 1)

Dense(n, draws) == DenseAfter([x \in 0..(n - 1) |-> x], draws, 1)

\* the value of index x read through the map kept in bins buckets
MapValueBins(slots, x, bins) ==
    LET search == linear_search(slots[x % bins], x)
    IN  IF search[1] THEN search[3] ELSE x

\* C25: for every bucket count, after i iterations of the loop the winners
\* are the first i elements of the dense array [0..n-1] after the swaps
\* (a[t], a[j_t]), t < i, and every index >= i read through the map has the
\* dense array's value; the winners returned are the first k elements of
\* the dense array after min(k, n-1) swaps.
C25_RefinesDenseShuffle ==
    sh.pc \in {"loop", "done"} =>
        /\ Len(sh.draws) = sh.i
        /\ sh.pc = "loop" => Len(sh.winners) = sh.i
        /\ sh.pc = "done" =>
              (Len(sh.winners) = sh.k /\ sh.i = Min(sh.k, sh.n - 1))
        /\ \A t \in 1..Len(sh.winners) :
              sh.winners[t] = Dense(sh.n, sh.draws)[t - 1]
        /\ \A x \in sh.i..(sh.n - 1) :
              MapValueBins(sh.scratch, x, sh.bins) = Dense(sh.n, sh.draws)[x]

\* three buckets, more indices than buckets: a winner that two earlier swaps
\* moved
C25_Witness ==
    /\ sh.pc = "done" /\ sh.bins = 3 /\ sh.n > 3 /\ sh.k >= 3
    /\ sh.draws[1][4] = sh.draws[2][4] /\ sh.draws[3][4] = sh.draws[1][4]
    /\ sh.winners[3] = 1

\* the keys of a bucket, in the order of its entries
KeysOf(bucket) == [t \in 1..(Len(bucket) \div 2) |-> bucket[2 * t - 1]]

\* the number of entries in all the buckets
RECURSIVE EntriesUpTo(_, _)
EntriesUpTo(slots, b) ==
    IF b < 0 THEN 0 ELSE Len(slots[b]) \div 2 + EntriesUpTo(slots, b - 1)

\* C26: at every point of the loop each bucket is a list of (index, value)
\* entries, an entry of index x is in bucket x mod BINS, and no index has
\* two entries; a step on an index that has an entry changes its value and
\* adds no entry.
C26_OneEntryPerIndex ==
    sh.pc \in {"loop", "done"} =>
        /\ \A b \in DOMAIN sh.scratch :
              /\ Len(sh.scratch[b]) % 2 = 0
              /\ \A t \in DOMAIN KeysOf(sh.scratch[b]) :
                    KeysOf(sh.scratch[b])[t] % sh.bins = b
              /\ \A t, u \in DOMAIN KeysOf(sh.scratch[b]) :
                    t # u => KeysOf(sh.scratch[b])[t] # KeysOf(sh.scratch[b])[u]
        /\ EntriesUpTo(sh.scratch, sh.bins - 1) =
              Cardinality({sh.draws[t][4] : t \in 1..Len(sh.draws)})

\* the contract's bucket count: three steps have drawn the same index, whose
\* bucket holds its one entry
C26_Witness ==
    /\ sh.pc = "loop" /\ sh.bins = BINS /\ sh.i = 3
    /\ sh.draws[1][4] = sh.draws[2][4] /\ sh.draws[2][4] = sh.draws[3][4]
    /\ EntriesUpTo(sh.scratch, sh.bins - 1) = 1
    /\ sh.scratch[sh.draws[1][4] % BINS] = <<sh.draws[1][4], 2>>

(***************************************************************************)
(* The entries of the sparse map (SpecShuffle)                             *)
(***************************************************************************)
\* C27: at every point of the loop every entry (x, v) of every bucket has
\* v # x: the map holds displaced values only, also after a step whose
\* draw is j = i.
C27_OnlyDisplacedValues ==
    sh.pc \in {"loop", "done"} =>
        \A b \in DOMAIN sh.scratch :
            \A t \in 1..(Len(sh.scratch[b]) \div 2) :
                sh.scratch[b][2 * t] # sh.scratch[b][2 * t - 1]


\* C28: binary_logarithm(n, m) never panics or truncates for 1 <= n < 2^63:
\* with c = floor(log2 n), at the start of every iteration and after the
\* conditional halving 2^c <= n < 2^(c+1); the 128-bit square divided by 2^c
\* is below 2^(c+2) <= 2^64, so that op.divw returns it whole; and the call
\* returns.
C28_SquareNeverOverflows ==
    (fn.f = "binary_logarithm" /\ fn.pc \in {"loop", "panicked", "returned"}
        /\ bitlen(fn.n) <= 63) =>
        LET c == fn.integer_component
            square == BigMul(fn.st.n, fn.st.n)
            quotient == BigShr(square, c)
        IN  /\ fn.pc # "panicked" /\ fn.st.ok
            /\ c = bitlen(fn.n) - 1 /\ c + 2 <= 64
            /\ BigGeq(fn.st.n, BigPow2(c))
            /\ BigCmp(fn.st.n, BigPow2(c + 1)) < 0
            /\ BigCmp(quotient, BigPow2(c + 2)) < 0
            /\ mulw(fn.st.n, fn.st.n) = <<BigShr(square, 64), BigLowBits(square, 64)>>
            /\ ~divwPanics(BigShr(square, 64), BigLowBits(square, 64), BigPow2(c))
            /\ divw(BigShr(square, 64), BigLowBits(square, 64), BigPow2(c)) = quotient
            /\ (fn.pc = "returned" /\ fn.m <= LOG_PRECISION) =>
                   ToNat(fn.r) = binary_logarithm(fn.n, fn.m)

\* the loop of 2^63 - 1 has run its 16 iterations and the call has returned
C28_Witness ==
    /\ fn.f = "binary_logarithm" /\ fn.pc = "returned"
    /\ fn.n = BigSub(BigPow2(63), <<1>>)
    /\ fn.m = LOG_PRECISION /\ fn.i = LOG_PRECISION
    /\ fn.st.fractional_component = Pow2(LOG_PRECISION) - 1

\* with 64 bits in the argument the wide division can panic: 2^64 - 1
C28_PanicsBeyond63Bits ==
    /\ fn.f = "binary_logarithm" /\ fn.pc = "panicked"
    /\ fn.n = BigSub(BigPow2(64), <<1>>)

\* the product of the terms from-th to to-th of n * (n-1) * ... * (n-k+1)
\* taken upwards, the j-th being n - k + j; 1 for no term
RECURSIVE RunProduct(_, _, _, _)
RunProduct(n, k, from, to) ==
    IF from > to THEN <<1>>
    ELSE BigMul(RunProduct(n, k, from, to - 1),
                BigAdd(BigSub(n, FromNat(k)), FromNat(to)))

RECURSIVE ProductOf(_)
ProductOf(args) ==
    IF args = <<>> THEN <<1>> ELSE BigMul(args[1], ProductOf(Tail(args)))

\* a followed call of k_permutation_logarithm with 1 <= k <= n < 2^63
KPermFollowed ==
    /\ fn.f = "k_permutation_logarithm" /\ fn.pc \in {"loop", "panicked", "returned"}
    /\ bitlen(fn.n) <= 63 /\ fn.k >= 1 /\ BigGeq(fn.n, FromNat(fn.k))

\* what holds of the arguments given to binary_logarithm so far
ArgumentsAreRuns ==
    KPermFollowed =>
        /\ fn.pc # "panicked"
        /\ Len(fn.runs) = Len(fn.args)
        /\ \A g \in 1..Len(fn.args) :
               /\ BigGeq(fn.args[g], <<1>>) /\ bitlen(fn.args[g]) <= 63
               /\ fn.runs[g][1] <= fn.runs[g][2]
               /\ fn.runs[g][1] = (IF g = 1 THEN 1 ELSE fn.runs[g - 1][2] + 1)
               /\ fn.args[g] = RunProduct(fn.n, fn.k, fn.runs[g][1], fn.runs[g][2])
        /\ fn.pc = "loop" =>
               /\ fn.run_from = (IF fn.runs = <<>> THEN 1
                                 ELSE fn.runs[Len(fn.runs)][2] + 1)
               /\ fn.acc.largest_log_arg = RunProduct(fn.n, fn.k, fn.run_from, fn.t)
               /\ bitlen(fn.acc.largest_log_arg) <= 63
        /\ fn.pc = "returned" =>
               /\ fn.runs[Len(fn.runs)][2] = fn.k
               /\ ProductOf(fn.args) = FallingFactorial(fn.n, fn.k)
               /\ fn.r = k_permutation_logarithm(fn.n, fn.k, fn.m)

\* an iteration gives the running product to binary_logarithm only when its
\* product with the term is 2^63 or more, and the next product is the term
ReducedOnlyAtOverflow ==
    (KPermFollowed /\ fn.pc = "loop" /\ fn'.pc = "loop" /\ fn'.t = fn.t + 1) =>
        LET i == BigAdd(BigSub(fn.n, FromNat(fn.k)), FromNat(fn.t + 1))
            product == BigMul(fn.acc.largest_log_arg, i)
        IN  IF fn'.args # fn.args
            THEN /\ BigGeq(product, BigPow2(63))
                 /\ fn'.args = Append(fn.args, fn.acc.largest_log_arg)
                 /\ fn'.acc.largest_log_arg = i
            ELSE fn'.acc.largest_log_arg = product

\* C29: in k_permutation_logarithm(n, k, m) with 1 <= k <= n < 2^63, every
\* argument given to binary_logarithm is in [1, 2^63) and is the product of
\* a run of consecutive terms of n-k+1..n, the runs follow one another and
\* the product of all arguments is n * (n-1) * ... * (n-k+1); the running
\* product is given to binary_logarithm inside the loop only when its
\* product with the next term would be 2^63 or more, and the next product
\* starts from that term.
C29_ArgumentsAreRunsBelow63Bits ==
    []ArgumentsAreRuns /\ [][ReducedOnlyAtOverflow]_vars

\* 3037000501 * 3037000500 needs 64 bits: two arguments, one term each
C29_Witness ==
    /\ fn.f = "k_permutation_logarithm" /\ fn.pc = "returned"
    /\ fn.n = BigAdd(LastUngrouped, <<1>>) /\ fn.k = 2
    /\ fn.args = <<LastUngrouped, BigAdd(LastUngrouped, <<1>>)>>
    /\ fn.runs = <<<<1, 1>>, <<2, 2>>>>

\* a returned call of binary_logarithm with 1 <= n < 2^63
BinLogReturned ==
    /\ fn.f = "binary_logarithm" /\ fn.pc = "returned"
    /\ BigGeq(fn.n, <<1>>) /\ bitlen(fn.n) <= 63

\* floor(log2 n) << m <= r < (floor(log2 n) + 1) << m, the shifts taken in
\* the integers, and 2^r <= n^(2^m), the powers compared up to MaxPrecision
\* fractional bits
EnclosesFromBelow ==
    LET floor == bitlen(fn.n) - 1
    IN  /\ BigGeq(fn.r, BigMul(FromNat(floor), BigPow2(fn.m)))
        /\ BigCmp(fn.r, BigMul(FromNat(floor + 1), BigPow2(fn.m))) < 0
        /\ fn.m <= MaxPrecision =>
               BigLeq(BigPow2(ToNat(fn.r)), BigPowPow2(fn.n, fn.m))

\* C30 as stated: for every 1 <= n < 2^63 and every precision m the result
\* r of binary_logarithm(n, m) satisfies floor(log2 n) << m <= r <
\* (floor(log2 n) + 1) << m and 2^r <= n^(2^m).
C30_EnclosesFromBelowAtEveryPrecision ==
    BinLogReturned => EnclosesFromBelow

\* C30, amended: the same for every 1 <= n < 2^63 and every precision m at
\* which floor(log2 n) << m fits in 64 bits.
C30_EnclosesFromBelowWhenShiftFits ==
    (BinLogReturned /\ bitlen(FromNat(bitlen(fn.n) - 1)) + fn.m <= 64) =>
        EnclosesFromBelow

\* log2(5) * 2^3 = 18.57...: the three iterations return 18
C30_Witness ==
    /\ BinLogReturned /\ fn.n = FromNat(5) /\ fn.m = 3 /\ fn.i = 3
    /\ fn.r = FromNat(18)
====
